---- MODULE Spec2Model ----
(***************************************************************************)
(* A model of the Franklin CLI (src/franklin/src/lib): the palette table,  *)
(* the flat KEY="value" config file, the config / motd / doctor /          *)
(* update-all commands and the text helpers they use.                      *)
(*                                                                         *)
(* Text is modelled by strings: Len, SubSeq and \o act on them as the      *)
(* Python str operations do, one character per position.                   *)
(***************************************************************************)
EXTENDS Integers, Sequences, FiniteSets, TLC

VARIABLES
    fs,     \* the config directory and file: [dir, exists, readable, text]
    pre,    \* fs as it was when the last command started
    saved,  \* what the last successful config save stored: [color_name, hex_color]
    last    \* the last command run: its inputs, what it printed, its exit code

vars == <<fs, pre, saved, last>>

----------------------------------------------------------------------------
(* Python str helpers *)

CharAt(s, i) == SubSeq(s, i, i)

\* str.startswith
StartsWith(s, p) == Len(s) >= Len(p) /\ SubSeq(s, 1, Len(p)) = p

\* the characters str.strip() removes
Whitespace == {" ", "\t", "\n", "\r"}

RECURSIVE LStripSet(_, _)
LStripSet(s, cs) ==
    IF Len(s) > 0 /\ CharAt(s, 1) \in cs
    THEN LStripSet(SubSeq(s, 2, Len(s)), cs)
    ELSE s

RECURSIVE RStripSet(_, _)
RStripSet(s, cs) ==
    IF Len(s) > 0 /\ CharAt(s, Len(s)) \in cs
    THEN RStripSet(SubSeq(s, 1, Len(s) - 1), cs)
    ELSE s

\* str.strip() and str.strip(chars)
Strip(s) == RStripSet(LStripSet(s, Whitespace), Whitespace)
StripChars(s, cs) == RStripSet(LStripSet(s, cs), cs)

\* index of the first occurrence of the character c in s, 0 when there is none
RECURSIVE FindFrom(_, _, _)
FindFrom(s, c, i) ==
    IF i > Len(s) THEN 0
    ELSE IF CharAt(s, i) = c THEN i
    ELSE FindFrom(s, c, i + 1)

Find(s, c) == FindFrom(s, c, 1)

\* s.split(c, 1)[1] for an s that holds c
AfterFirst(s, c) == SubSeq(s, Find(s, c) + 1, Len(s))

\* s.split(c)
RECURSIVE Split(_, _)
Split(s, c) ==
    IF Find(s, c) = 0 THEN <<s>>
    ELSE <<SubSeq(s, 1, Find(s, c) - 1)>> \o Split(AfterFirst(s, c), c)

\* the lines a text file yields when iterated, each with its terminator
RECURSIVE FileLines(_)
FileLines(text) ==
    IF text = "" THEN <<>>
    ELSE IF Find(text, "\n") = 0 THEN <<text>>
    ELSE <<SubSeq(text, 1, Find(text, "\n"))>> \o FileLines(AfterFirst(text, "\n"))

\* sep.join(seq)
RECURSIVE Join(_, _)
Join(seq, sep) ==
    IF Len(seq) = 0 THEN ""
    ELSE IF Len(seq) = 1 THEN seq[1]
    ELSE seq[1] \o sep \o Join(Tail(seq), sep)

----------------------------------------------------------------------------
(* constants.py *)

\* the keys of CAMPFIRE_COLORS, in the order of the table
PaletteNames ==
    <<"Cello", "Terracotta", "Black Rock", "Sage", "Golden Amber", "Flamingo", "Blue Calx">>

CAMPFIRE_COLORS ==
    [n \in {PaletteNames[i] : i \in 1..Len(PaletteNames)} |->
        CASE n = "Cello"        -> [base |-> "#607a97", dark |-> "#3d4f63", light |-> "#a3bdd4"]
          [] n = "Terracotta"   -> [base |-> "#b87b6a", dark |-> "#7a4a3e", light |-> "#e8b5a5"]
          [] n = "Black Rock"   -> [base |-> "#747b8a", dark |-> "#494f5c", light |-> "#a8b0be"]
          [] n = "Sage"         -> [base |-> "#8fb14b", dark |-> "#5a6e2f", light |-> "#c5e088"]
          [] n = "Golden Amber" -> [base |-> "#f9c574", dark |-> "#b8873e", light |-> "#ffe0b0"]
          [] n = "Flamingo"     -> [base |-> "#e75351", dark |-> "#a12f2d", light |-> "#ff9d9b"]
          [] n = "Blue Calx"    -> [base |-> "#b8c5d9", dark |-> "#7b8da8", light |-> "#e5edf5"]]

DEFAULT_CAMPFIRE_COLOR == "Cello"

----------------------------------------------------------------------------
(* The config file on disk *)

\* a file system state: the config directory, and the file's presence,
\* permission to read it, and text
NoFile(dirExists) ==
    [dir |-> dirExists, exists |-> FALSE, readable |-> FALSE, text |-> ""]

FileWith(t, canRead) ==
    [dir |-> TRUE, exists |-> TRUE, readable |-> canRead, text |-> t]

\* can the file be opened and read: CONFIG_FILE.exists() and open() not raising
\* OSError
CanRead(f) == f.exists /\ f.readable

\* 1-based index of the first line of lines that starts with key, 0 if none:
\* the loop "for line in f: if line.startswith(key): ...; break"
RECURSIVE FirstLineWith(_, _, _)
FirstLineWith(lines, key, i) ==
    IF i > Len(lines) THEN 0
    ELSE IF StartsWith(lines[i], key) THEN i
    ELSE FirstLineWith(lines, key, i + 1)

\* line.split("=", 1)[1].strip().strip('"')
LineValue(line) == StripChars(Strip(AfterFirst(line, "=")), {"\""})

----------------------------------------------------------------------------
(* motd.py: load_motd_color *)

\* the name load_motd_color settles on before it looks the name up in the table
StoredColorName(f) ==
    IF ~CanRead(f) THEN DEFAULT_CAMPFIRE_COLOR
    ELSE LET lines == FileLines(f.text)
             i == FirstLineWith(lines, "MOTD_COLOR_NAME=", 1)
         IN IF i = 0 THEN DEFAULT_CAMPFIRE_COLOR ELSE LineValue(lines[i])

load_motd_color_unchecked(f) ==
    [name |-> StoredColorName(f),
     colors |-> IF StoredColorName(f) \in DOMAIN CAMPFIRE_COLORS
                THEN CAMPFIRE_COLORS[StoredColorName(f)]
                ELSE [base |-> "", dark |-> "", light |-> ""]]

load_motd_color(f) ==
    LET color_name == IF StoredColorName(f) \notin DOMAIN CAMPFIRE_COLORS
                      THEN DEFAULT_CAMPFIRE_COLOR
                      ELSE StoredColorName(f)
    IN [name |-> color_name, colors |-> CAMPFIRE_COLORS[color_name]]

----------------------------------------------------------------------------
(* main.py: the config command *)

Msg(kind, text) == [kind |-> kind, text |-> text]

\* the validation of a color token: "if color in CAMPFIRE_COLORS ... elif
\* color.startswith('#') and len(color) == 7 ... else"
ResolveColor(tok) ==
    IF tok \in DOMAIN CAMPFIRE_COLORS
    THEN [ok |-> TRUE, color_name |-> tok, hex_color |-> CAMPFIRE_COLORS[tok].base]
    ELSE IF StartsWith(tok, "#") /\ Len(tok) = 7
    THEN [ok |-> TRUE, color_name |-> "custom", hex_color |-> tok]
    ELSE [ok |-> FALSE, color_name |-> "", hex_color |-> ""]

\* the two lines the command writes
ConfigText(color_name, hex_color) ==
    "MOTD_COLOR_NAME=\"" \o color_name \o "\"\n"
        \o "MOTD_COLOR=\"" \o hex_color \o "\"\n"

\* a save that opens the file for appending instead of truncating it
WriteConfigAppend(f, color_name, hex_color) ==
    [dir |-> TRUE, exists |-> TRUE,
     readable |-> IF f.exists THEN f.readable ELSE TRUE,
     text |-> (IF f.exists THEN f.text ELSE "") \o ConfigText(color_name, hex_color)]

\* CONFIG_DIR.mkdir(parents=True, exist_ok=True); open(CONFIG_FILE, "w"); two
\* writes.  Opening for writing truncates the file and keeps its permissions.
WriteConfig(f, color_name, hex_color) ==
    [dir |-> TRUE, exists |-> TRUE,
     readable |-> IF f.exists THEN f.readable ELSE TRUE,
     text |-> ConfigText(color_name, hex_color)]

\* the messages of a rejected --color token
FlagRejectMsgs(color) ==
    << Msg("error", "Invalid color: " \o color),
       Msg("info", "Valid colors: " \o Join(PaletteNames, ", ")),
       Msg("info", "Or use hex format: #rrggbb") >>

\* the messages of a rejected prompt answer
ChoiceRejectMsgs(color_choice) ==
    << Msg("error", "Invalid color: " \o color_choice) >>

\* config --color <color>: the branch "if color:"
ConfigWithColorEager(f, color) ==
    LET r == ResolveColor(color)
        w == WriteConfig(f, IF r.ok THEN r.color_name ELSE color,
                            IF r.ok THEN r.hex_color ELSE color)
    IN IF ~r.ok
       THEN [fs |-> w, exit |-> 1, path |-> "flag", token |-> color, stored |-> r,
             msgs |-> FlagRejectMsgs(color)]
       ELSE [fs |-> w, exit |-> 0, path |-> "flag", token |-> color, stored |-> r,
             msgs |-> << Msg("success", "MOTD color set to " \o color
                                          \o " (" \o r.hex_color \o ")") >>]

ConfigWithColor(f, color) ==
    LET r == ResolveColor(color)
    IN IF ~r.ok
       THEN [fs |-> f, exit |-> 1, path |-> "flag", token |-> color, stored |-> r,
             msgs |-> FlagRejectMsgs(color)]
       ELSE [fs |-> WriteConfig(f, r.color_name, r.hex_color),
             exit |-> 0, path |-> "flag", token |-> color, stored |-> r,
             msgs |-> << Msg("success", "MOTD color set to " \o color
                                          \o " (" \o r.hex_color \o ")") >>]

\* config without a (non-empty) --color: the interactive mode, color_choice
\* being what Prompt.ask returned
ConfigInteractive(f, color_choice) ==
    LET cur == load_motd_color(f)
        shown == << Msg("header", "Franklin Configuration"),
                    Msg("branch", "Current MOTD color: " \o cur.name
                                    \o " (" \o cur.colors.base \o ")"),
                    Msg("branch", "Available Campfire colors:") >>
        r == ResolveColor(color_choice)
    IN IF ~r.ok
       THEN [fs |-> f, exit |-> 1, path |-> "interactive", token |-> color_choice,
             stored |-> r, msgs |-> shown \o ChoiceRejectMsgs(color_choice)]
       ELSE [fs |-> WriteConfig(f, r.color_name, r.hex_color),
             exit |-> 0, path |-> "interactive", token |-> color_choice,
             stored |-> r,
             msgs |-> shown \o << Msg("success", "MOTD color set to " \o color_choice
                                          \o " (" \o r.hex_color \o ")") >>]

\* the --color option: absent (None) or a string
NoColorOption == [given |-> FALSE, value |-> ""]
ColorOption(v) == [given |-> TRUE, value |-> v]

\* "if color:" is false for None and for the empty string
config(f, color, color_choice) ==
    IF color.given /\ color.value # ""
    THEN ConfigWithColor(f, color.value)
    ELSE ConfigInteractive(f, color_choice)

----------------------------------------------------------------------------
(* Exceptions: what a call into the platform can raise, and what an except  *)
(* clause catches                                                          *)

\* the base classes of an exception class (itself included)
Bases(exc) ==
    CASE exc = "FileNotFoundError"  -> {"FileNotFoundError", "OSError", "Exception"}
      [] exc = "PermissionError"    -> {"PermissionError", "OSError", "Exception"}
      [] exc = "TimeoutError"       -> {"TimeoutError", "OSError", "Exception"}
      [] exc = "OSError"            -> {"OSError", "Exception"}
      [] exc = "CalledProcessError" -> {"CalledProcessError", "Exception"}
      [] exc = "TimeoutExpired"     -> {"TimeoutExpired", "Exception"}
      [] exc = "IndexError"         -> {"IndexError", "Exception"}
      [] OTHER                      -> {exc, "Exception"}

\* "except (classes):" catches exc
Catches(classes, exc) == Bases(exc) \cap classes # {}

\* the outcome of a call: it returned value, or raised the exception exc
Returned(value) == [raised |-> "none", value |-> value]
Raised(exc) == [raised |-> exc, value |-> ""]

\* try: <call> except (classes): return placeholder
TryExcept(outcome, classes, placeholder) ==
    IF outcome.raised # "none" /\ Catches(classes, outcome.raised)
    THEN Returned(placeholder)
    ELSE outcome

----------------------------------------------------------------------------
(* motd.py: the monitored services *)

\* a list comprehension that trims the entries and keeps the empty ones
RECURSIVE StripAll(_)
StripAll(parts) ==
    IF Len(parts) = 0 THEN <<>>
    ELSE <<Strip(parts[1])>> \o StripAll(Tail(parts))

\* [s.strip() for s in parts if s.strip()]
RECURSIVE StripNonEmpty(_)
StripNonEmpty(parts) ==
    IF Len(parts) = 0 THEN <<>>
    ELSE IF Strip(parts[1]) # ""
         THEN <<Strip(parts[1])>> \o StripNonEmpty(Tail(parts))
         ELSE StripNonEmpty(Tail(parts))

get_monitored_services_list(f) ==
    IF ~CanRead(f) THEN <<>>
    ELSE LET lines == FileLines(f.text)
             i == FirstLineWith(lines, "MONITORED_SERVICES=", 1)
         IN IF i = 0 THEN <<>>
            ELSE StripNonEmpty(Split(LineValue(lines[i]), ","))

UpperCase == "ABCDEFGHIJKLMNOPQRSTUVWXYZ"
LowerCase == "abcdefghijklmnopqrstuvwxyz"
Digits == "0123456789"

\* re.IGNORECASE: compare characters folded to lower case
Lower(c) ==
    IF Find(UpperCase, c) # 0 THEN CharAt(LowerCase, Find(UpperCase, c)) ELSE c

\* a character of the class \w
IsWordChar(c) ==
    Find(UpperCase, c) # 0 \/ Find(LowerCase, c) # 0 \/ Find(Digits, c) # 0 \/ c = "_"

\* \b between positions p and p + 1 of line (p = 0: the start; p = Len: the end)
WordBoundary(line, p) ==
    (p >= 1 /\ IsWordChar(CharAt(line, p)))
        # (p < Len(line) /\ IsWordChar(CharAt(line, p + 1)))

\* re.search(r"\b" + re.escape(service) + r"\b", line, re.IGNORECASE)
WordSearch(service, line) ==
    \E p \in 0..(Len(line) - Len(service)) :
        /\ \A k \in 1..Len(service) :
              Lower(CharAt(line, p + k)) = Lower(CharAt(service, k))
        /\ WordBoundary(line, p)
        /\ WordBoundary(line, p + Len(service))

\* the lines launchctl list prints for the running services
RECURSIVE LaunchctlLines(_)
LaunchctlLines(active) ==
    IF active = {} THEN <<"PID\tStatus\tLabel">>
    ELSE LET s == CHOOSE x \in active : TRUE
         IN LaunchctlLines(active \ {s}) \o <<"-\t0\tcom.Example." \o s>>

\* the platform: subprocess.run(["launchctl", "list"], check=True, timeout=2).
\* env.tool says how the service manager's command behaves: "ok", "missing"
\* (no such binary), "fails" (non-zero exit) or "timeout"
LaunchctlOutcome(env) ==
    CASE env.tool = "ok"      -> Returned(LaunchctlLines(env.active))
      [] env.tool = "missing" -> Raised("FileNotFoundError")
      [] env.tool = "fails"   -> Raised("CalledProcessError")
      [] env.tool = "timeout" -> Raised("TimeoutExpired")

\* the platform: subprocess.run(["systemctl", "is-active", service], timeout=1),
\* without check=True: a non-zero exit raises nothing, and prints no "active"
SystemctlOutcome(env, service) ==
    CASE env.tool = "ok"      -> Returned(IF service \in env.active
                                          THEN "active\n" ELSE "inactive\n")
      [] env.tool = "missing" -> Raised("FileNotFoundError")
      [] env.tool = "fails"   -> Returned("")
      [] env.tool = "timeout" -> Raised("TimeoutExpired")

\* the Darwin loop: a service is running when some line of the launchctl
\* listing mentions it
RECURSIVE DarwinRunning(_, _)
DarwinRunning(monitored, listing) ==
    IF Len(monitored) = 0 THEN <<>>
    ELSE (IF \E i \in 1..Len(listing) : WordSearch(monitored[1], listing[i])
          THEN <<monitored[1]>> ELSE <<>>)
         \o DarwinRunning(Tail(monitored), listing)

\* the Linux loop: one systemctl call per service; "except Exception: continue"
RECURSIVE LinuxRunning(_, _)
LinuxRunning(monitored, env) ==
    IF Len(monitored) = 0 THEN <<>>
    ELSE LET out == TryExcept(SystemctlOutcome(env, monitored[1]), {"Exception"}, "")
         IN (IF Strip(out.value) = "active" THEN <<monitored[1]>> ELSE <<>>)
            \o LinuxRunning(Tail(monitored), env)

\* a probe that reports every running unit, listed or not
RunningUnfiltered(f, env) ==
    [running |-> IF env.system \in {"Darwin", "Linux"} /\ env.tool = "ok"
                 THEN <<"sshd">> \o get_monitored_services_list(f)
                 ELSE <<>>,
     calls |-> <<"systemctl list-units">>,
     raised |-> "none"]

\* get_system_services: the running services among the monitored ones, the
\* external commands launched to find them, and the exception that escapes
\* ("none": the outer "except Exception: pass" catches them all).
\* env: system (platform.system()), tool, active (the units that are running)
get_system_services(f, env) ==
    LET monitored == get_monitored_services_list(f)
    IN IF monitored = <<>>
       THEN [running |-> <<>>, calls |-> <<>>, raised |-> "none"]
       ELSE IF env.system = "Darwin"
       THEN LET out == TryExcept(LaunchctlOutcome(env), {"Exception"}, <<>>)
            IN [running |-> DarwinRunning(monitored, out.value),
                calls |-> <<"launchctl list">>,
                raised |-> out.raised]
       ELSE IF env.system = "Linux"
       THEN [running |-> LinuxRunning(monitored, env),
             calls |-> [i \in 1..Len(monitored) |->
                           "systemctl is-active " \o monitored[i]],
             raised |-> "none"]
       ELSE [running |-> <<>>, calls |-> <<>>, raised |-> "none"]

----------------------------------------------------------------------------
(* motd.py: the probes.  Each takes the platform's answer (an outcome) and  *)
(* gives what the probe function returns or raises.                        *)

Min(a, b) == IF a < b THEN a ELSE b
Max(a, b) == IF a > b THEN a ELSE b

\* c * n
RECURSIVE Repeat(_, _)
Repeat(c, n) == IF n <= 0 THEN "" ELSE c \o Repeat(c, n - 1)

\* str(n) for a natural number
RECURSIVE NatToStr(_)
NatToStr(n) ==
    IF n < 10 THEN CharAt(Digits, n + 1)
    ELSE NatToStr(n \div 10) \o CharAt(Digits, (n % 10) + 1)

\* f"{n/d:.0f}": n/d rounded to the nearest integer, ties to even
RoundHalfEven(n, d) ==
    LET q == n \div d
        r == n % d
    IN IF 2 * r < d THEN q
       ELSE IF 2 * r > d THEN q + 1
       ELSE IF q % 2 = 0 THEN q ELSE q + 1

\* s.replace(old, new) for a two-character old and a one-character new
RECURSIVE Replace2(_, _, _)
Replace2(s, old, new) ==
    IF Len(s) < 2 THEN s
    ELSE IF SubSeq(s, 1, 2) = old THEN new \o Replace2(SubSeq(s, 3, Len(s)), old, new)
    ELSE CharAt(s, 1) \o Replace2(SubSeq(s, 2, Len(s)), old, new)

get_franklin_version(env) ==
    IF env.version.exists
    THEN IF env.version.read.raised = "none"
         THEN Returned(Strip(env.version.read.value))
         ELSE env.version.read
    ELSE Returned("unknown")

get_hostname(env) == TryExcept(env.hostname, {"OSError"}, "unknown")

get_ip_address(env) == TryExcept(env.ip, {"OSError", "TimeoutError"}, "0.0.0.0")

\* the value of one line of /etc/os-release, quotes removed
OsReleaseValue(value) ==
    IF StartsWith(value, "\"") /\ CharAt(value, Len(value)) = "\""
    THEN Replace2(SubSeq(value, 2, Len(value) - 1), "\\\"", "\"")
    ELSE IF StartsWith(value, "'") /\ CharAt(value, Len(value)) = "'"
    THEN Replace2(SubSeq(value, 2, Len(value) - 1), "\\'", "'")
    ELSE value

\* os_release.get(key, default) after the loop over the lines: the last line
\* that assigns key wins
RECURSIVE OsReleaseGet(_, _, _)
OsReleaseGet(lines, key, default) ==
    IF Len(lines) = 0 THEN default
    ELSE LET line == Strip(lines[Len(lines)])
             front == SubSeq(lines, 1, Len(lines) - 1)
         IN IF Find(lines[Len(lines)], "=") # 0
               /\ SubSeq(line, 1, Find(line, "=") - 1) = key
            THEN OsReleaseValue(AfterFirst(line, "="))
            ELSE OsReleaseGet(front, key, default)

get_os_version(env) ==
    IF env.system = "Darwin"
    THEN IF env.os.raised = "none"
         THEN Returned("macOS " \o Strip(env.os.value))
         ELSE TryExcept(env.os,
                        {"FileNotFoundError", "CalledProcessError", "TimeoutExpired"},
                        "macOS")
    ELSE IF env.system = "Linux"
    THEN IF env.os.raised = "none"
         THEN LET lines == FileLines(env.os.value)
                  distro == OsReleaseGet(lines, "NAME", "Linux")
                  version == OsReleaseGet(lines, "VERSION_ID", "")
              IN Returned(IF version # "" THEN distro \o " " \o version ELSE distro)
         ELSE TryExcept(env.os, {"FileNotFoundError", "OSError"}, "Linux")
    ELSE Returned(env.system)

\* the glyphs of the banner, one character each: the border, the solid and
\* light blocks of a bar, the version emoji and the grid's action glyph
BORDER == "-"
BLOCK_FULL == "#"
BLOCK_LIGHT == "."
EMOJI == "@"
GLYPH_ACTION == "*"

\* a bar that rounds the filled part to the nearest block
create_progress_bar_rounded(num, den, width) ==
    LET filled == RoundHalfEven(num * width, den * 100)
        empty == width - filled
    IN "|" \o Repeat(BLOCK_FULL, filled) \o Repeat(BLOCK_LIGHT, empty) \o "|"

\* create_progress_bar for percent = num / den
create_progress_bar(num, den, width) ==
    LET filled == (num * width) \div (den * 100)
        empty == width - filled
    IN "|" \o Repeat(BLOCK_FULL, filled) \o Repeat(BLOCK_LIGHT, empty) \o "|"

BAR_WIDTH == 10

\* get_disk_stats: env.disk returns [used, total] in whole GiB
get_disk_stats(env) ==
    LET out == IF env.disk.raised = "none" /\ env.disk.value.total = 0
               THEN Raised("ZeroDivisionError")
               ELSE env.disk
    IN IF out.raised = "none"
       THEN Returned([bar |-> create_progress_bar(out.value.used * 100,
                                                  out.value.total, BAR_WIDTH),
                      pct |-> NatToStr(RoundHalfEven(out.value.used * 100,
                                                     out.value.total)),
                      used |-> NatToStr(out.value.used) \o "G",
                      total |-> NatToStr(out.value.total) \o "G"])
       ELSE TryExcept(out, {"Exception"},
                      [bar |-> "|??????????|", pct |-> "0",
                       used |-> "??", total |-> "??"])

\* get_memory_stats: env.mem returns [used, total] in whole GiB
get_memory_stats(env) ==
    IF env.mem.raised = "none"
    THEN Returned([used |-> NatToStr(env.mem.value.used) \o "G",
                   total |-> NatToStr(env.mem.value.total) \o "G"])
    ELSE TryExcept(env.mem, {"Exception"}, [used |-> "??", total |-> "??"])

get_docker_containers(env) ==
    IF env.docker.raised = "none"
    THEN Returned(StripNonEmpty(Split(Strip(env.docker.value), "\n")))
    ELSE TryExcept(env.docker,
                   {"FileNotFoundError", "CalledProcessError", "TimeoutExpired"},
                   <<>>)

----------------------------------------------------------------------------
(* motd.py: format_grid and render_motd *)

MOTD_MAX_WIDTH == 80
MOTD_MIN_WIDTH == 40
MAX_ITEM_WIDTH == 22

\* f"{s:<n}": s padded with spaces on the right to n characters, never cut
PadRight(s, n) == s \o Repeat(" ", n - Len(s))

\* one cell of the grid: the action glyph, then the padded label
GridCell(item, max_item_width) ==
    " " \o GLYPH_ACTION \o " " \o PadRight(item, max_item_width - 4) \o " "

RECURSIVE GridRowText(_, _)
GridRowText(chunk, max_item_width) ==
    IF Len(chunk) = 0 THEN ""
    ELSE GridCell(chunk[1], max_item_width)
            \o GridRowText(Tail(chunk), max_item_width)

\* the rows from item i on: for i in range(0, len(items), items_per_line)
RECURSIVE GridRowsFrom(_, _, _, _)
GridRowsFrom(items, i, items_per_line, max_item_width) ==
    IF i > Len(items) THEN <<>>
    ELSE LET chunk == SubSeq(items, i, Min(i + items_per_line - 1, Len(items)))
         IN <<[items |-> chunk, text |-> GridRowText(chunk, max_item_width)]>>
            \o GridRowsFrom(items, i + items_per_line, items_per_line, max_item_width)

\* a grid that forgets the column kept free at the right edge
format_grid_full_width(items, width, max_item_width) ==
    IF Len(items) = 0 THEN <<>>
    ELSE GridRowsFrom(items, 1, Max(1, width \div max_item_width), max_item_width)

format_grid(items, width, max_item_width) ==
    IF Len(items) = 0 THEN <<>>
    ELSE GridRowsFrom(items, 1, Max(1, (width - 1) \div max_item_width),
                      max_item_width)

\* 1-based index of the first outcome that raised, 0 if none did
RECURSIVE FirstRaised(_, _)
FirstRaised(outcomes, i) ==
    IF i > Len(outcomes) THEN 0
    ELSE IF outcomes[i].raised # "none" THEN i
    ELSE FirstRaised(outcomes, i + 1)

ProbeNames ==
    <<"hostname", "ip", "version", "os", "disk", "memory", "containers", "services">>

RECURSIVE GridTexts(_)
GridTexts(rows) ==
    IF Len(rows) = 0 THEN <<>> ELSE <<rows[1].text>> \o GridTexts(Tail(rows))

\* a header whose padding leaves no column out for the emoji
HeaderLineFullPadding(width, hostname, ip, version) ==
    LET version_text == EMOJI \o " " \o version
        left == " > " \o hostname \o " (" \o ip \o ")"
    IN left \o Repeat(" ", width - Len(left) - Len(version_text)) \o version_text

\* the header line: the left segment, the padding (one less than the columns
\* left over, the emoji taking two), the version tag
HeaderLine(width, hostname, ip, version) ==
    LET version_text == EMOJI \o " " \o version
        left == " > " \o hostname \o " (" \o ip \o ")"
        padding == width - Len(left) - Len(version_text) - 1
    IN left \o Repeat(" ", padding) \o version_text

\* a stats line padded the way the header is, one column short
StatsLineOneShort(width, disk, mem, os_version) ==
    LET stats_text == "  " \o disk.bar \o " " \o disk.pct \o "% " \o disk.used
                        \o "/" \o disk.total \o "               "
                        \o "RAM " \o mem.used \o "/" \o mem.total
        os_padding == width - Len(stats_text) - Len(os_version) - 1
    IN stats_text \o Repeat(" ", os_padding) \o os_version

\* the stats line: the disk bar, percentage and used/total, the gap, the RAM
\* used/total, the padding and the OS label
StatsLine(width, disk, mem, os_version) ==
    LET stats_text == "  " \o disk.bar \o " " \o disk.pct \o "% " \o disk.used
                        \o "/" \o disk.total \o "               "
                        \o "RAM " \o mem.used \o "/" \o mem.total
        os_padding == width - Len(stats_text) - Len(os_version)
    IN stats_text \o Repeat(" ", os_padding) \o os_version

\* the lines render_motd prints once every probe has returned
MotdLines(width, hostname, ip, version, os_version, disk, mem, containers, services) ==
    LET hr == Repeat(BORDER, width)
        header_line == HeaderLine(width, hostname, ip, version)
        stats_line == StatsLine(width, disk, mem, os_version)
    IN <<hr, header_line, hr, stats_line, " " \o hr>>
       \o (IF Len(containers) > 0
           THEN <<"", " Docker Containers:">>
                    \o GridTexts(format_grid(containers, width, MAX_ITEM_WIDTH))
           ELSE <<>>)
       \o (IF Len(services) > 0
           THEN <<"", " Services:">>
                    \o GridTexts(format_grid(services, width, MAX_ITEM_WIDTH))
           ELSE <<>>)
       \o (IF Len(containers) > 0 \/ Len(services) > 0 THEN <<"">> ELSE <<>>)

\* a clamp that forgets the lower limit
EffectiveWidthNoMin(requested) == Min(requested, MOTD_MAX_WIDTH)

\* width = max(MOTD_MIN_WIDTH, min(width, MOTD_MAX_WIDTH))
EffectiveWidth(requested) == Max(MOTD_MIN_WIDTH, Min(requested, MOTD_MAX_WIDTH))

\* render_motd(width): env.width is the width asked for (the terminal's when
\* the caller gives none).  The probes run in the order of the code; a probe
\* that raises ends the command with a traceback and exit code 1.
render_motd(f, env) ==
    LET width == EffectiveWidth(env.width)
        color == load_motd_color(f)
        svc == get_system_services(f, env.services)
        outcomes == << get_hostname(env), get_ip_address(env),
                       get_franklin_version(env), get_os_version(env),
                       get_disk_stats(env), get_memory_stats(env),
                       get_docker_containers(env),
                       [raised |-> svc.raised, value |-> svc.running] >>
        k == FirstRaised(outcomes, 1)
    IN IF k # 0
       THEN [exit |-> 1, raised |-> outcomes[k].raised,
             probes |-> SubSeq(ProbeNames, 1, k),
             width |-> width, color |-> color,
             snapshot |-> <<>>, calls |-> <<>>, lines |-> <<>>]
       ELSE [exit |-> 0, raised |-> "none",
             probes |-> ProbeNames,
             width |-> width, color |-> color,
             snapshot |-> [i \in 1..Len(outcomes) |-> outcomes[i].value],
             calls |-> svc.calls,
             lines |-> MotdLines(width, outcomes[1].value, outcomes[2].value,
                                 outcomes[3].value, outcomes[4].value,
                                 outcomes[5].value, outcomes[6].value,
                                 outcomes[7].value, outcomes[8].value)]

----------------------------------------------------------------------------
(* main.py: doctor *)

\* s.split(): the words of s, separated by runs of whitespace
RECURSIVE SplitWords(_)
SplitWords(s) ==
    LET t == LStripSet(s, Whitespace)
        RECURSIVE WordEnd(_)
        WordEnd(i) == IF i > Len(t) \/ CharAt(t, i) \in Whitespace THEN i - 1
                      ELSE WordEnd(i + 1)
    IN IF t = "" THEN <<>>
       ELSE <<SubSeq(t, 1, WordEnd(1))>> \o SplitWords(SubSeq(t, WordEnd(1) + 1, Len(t)))

\* result.stdout.strip().split()[1] of "<tool> --version", run with check=True
VersionWord(outcome) ==
    IF outcome.raised # "none" THEN outcome
    ELSE IF Len(SplitWords(Strip(outcome.value))) < 2 THEN Raised("IndexError")
    ELSE Returned(SplitWords(Strip(outcome.value))[2])

\* one "try: ... except Exception:" check of a tool: the report's value and
\* the name added to failures (if any)
ToolCheck(outcome, label, failure) ==
    LET v == TryExcept(VersionWord(outcome), {"Exception"}, "")
    IN IF v.value # ""
       THEN [value |-> label \o " " \o v.value, failures |-> <<>>]
       ELSE [value |-> label \o " not found", failures |-> <<failure>>]

\* bool(shutil.which("bat") or shutil.which("batcat"))
has_bat(env) == env.bat \/ env.batcat

\* a bat check that reports the missing tool and does not record the failure
BatCheckForgetful(env) ==
    IF has_bat(env)
    THEN [value |-> "present", failures |-> <<>>]
    ELSE [value |-> "not found", failures |-> <<>>]

BatCheck(env) ==
    IF has_bat(env)
    THEN [value |-> "present", failures |-> <<>>]
    ELSE [value |-> "not found", failures |-> <<"bat">>]

RootCheck(env) ==
    IF env.root
    THEN [value |-> "<FRANKLIN_ROOT>", failures |-> <<>>]
    ELSE [value |-> "Not found", failures |-> <<"franklin_root">>]

CheckKeys == <<"Shell", "Plugin Manager", "Prompt", "Python", "bat", "Franklin Root">>

\* env: zsh, sheldon, starship (the outcomes of the three "--version"
\* commands), bat, batcat (shutil.which finds them), root (FRANKLIN_ROOT
\* exists).  The checks dict once every check has run
DoctorChecks(env) ==
    [k \in {CheckKeys[i] : i \in 1..Len(CheckKeys)} |->
        CASE k = "Shell" -> ToolCheck(env.zsh, "Zsh", "zsh").value
          [] k = "Plugin Manager" -> ToolCheck(env.sheldon, "Sheldon", "sheldon").value
          [] k = "Prompt" -> ToolCheck(env.starship, "Starship", "starship").value
          [] k = "Python" -> "3.x.y"
          [] k = "bat" -> BatCheck(env).value
          [] k = "Franklin Root" -> RootCheck(env).value]

\* the failures list once every check has run
DoctorFailures(env) ==
    ToolCheck(env.zsh, "Zsh", "zsh").failures
        \o ToolCheck(env.sheldon, "Sheldon", "sheldon").failures
        \o ToolCheck(env.starship, "Starship", "starship").failures
        \o BatCheck(env).failures \o RootCheck(env).failures

\* a doctor that raises typer.Exit(code=1) before the output section
doctor_exit_before_output(env, json_output) ==
    LET failed == DoctorFailures(env) # <<>>
    IN [exit |-> IF failed THEN 1 ELSE 0,
        failures |-> DoctorFailures(env),
        checks |-> DoctorChecks(env),
        stdout |-> IF json_output /\ ~failed THEN <<[json |-> DoctorChecks(env)]>>
                   ELSE <<>>,
        stderr |-> <<Msg("logic", "Checking Environment...")>>
                     \o (IF json_output \/ failed THEN <<>>
                         ELSE <<[columnar |-> DoctorChecks(env)]>>)]

\* doctor(json_output): the exit code, the report, and what is written to
\* standard output (print) and to standard error (ui)
doctor(env, json_output) ==
    [exit |-> IF DoctorFailures(env) # <<>> THEN 1 ELSE 0,
     failures |-> DoctorFailures(env),
     checks |-> DoctorChecks(env),
     stdout |-> IF json_output THEN <<[json |-> DoctorChecks(env)]>> ELSE <<>>,
     stderr |-> <<Msg("logic", "Checking Environment...")>>
                  \o (IF json_output THEN <<>> ELSE <<[columnar |-> DoctorChecks(env)]>>)]

----------------------------------------------------------------------------
(* main.py: _detect_os_family, _run_logged, _update_system_packages *)

\* env.system is platform.system(); env.debian and env.redhat say whether
\* /etc/debian_version and /etc/redhat-release exist
detect_os_family(env) ==
    IF env.system = "Darwin" THEN "macos"
    ELSE IF env.debian THEN "debian"
    ELSE IF env.redhat THEN "rhel"
    ELSE "unknown"

\* a _run_logged that runs the command whether or not the run is a dry run
run_logged_always(cmd, dry_run, outcome) ==
    IF outcome = "ok"
    THEN [ok |-> TRUE, launched |-> <<cmd>>, msgs |-> <<>>]
    ELSE [ok |-> FALSE, launched |-> <<cmd>>,
          msgs |-> <<Msg("error", "stderr of " \o cmd)>>]

\* _run_logged(cmd, dry_run): outcome is "ok" or the exception subprocess.run
\* raises.  launched: the external commands actually started
run_logged(cmd, dry_run, outcome) ==
    IF dry_run
    THEN [ok |-> TRUE, launched |-> <<>>, msgs |-> <<Msg("branch", "DRY RUN: " \o cmd)>>]
    ELSE IF outcome = "ok"
    THEN [ok |-> TRUE, launched |-> <<cmd>>, msgs |-> <<>>]
    ELSE IF outcome = "FileNotFoundError"
    THEN [ok |-> FALSE, launched |-> <<cmd>>,
          msgs |-> <<Msg("error", "command not found on this system")>>]
    ELSE [ok |-> FALSE, launched |-> <<cmd>>,
          msgs |-> <<Msg("error", "stderr of " \o cmd)>>]

\* the two commands of a family: the refresh, and the upgrade as a real run and
\* as a dry run
PackageCommands(os_family) ==
    CASE os_family = "macos" ->
            [tool |-> "Using Homebrew", refresh |-> "brew update",
             upgrade |-> "brew upgrade", dry |-> "brew upgrade --dry-run"]
      [] os_family = "debian" ->
            [tool |-> "Using apt-get", refresh |-> "sudo apt-get update",
             upgrade |-> "sudo apt-get upgrade -y", dry |-> "apt-get upgrade -s"]
      [] os_family = "rhel" ->
            [tool |-> "Using dnf", refresh |-> "sudo dnf makecache",
             upgrade |-> "sudo dnf upgrade -y", dry |-> "dnf upgrade --assumeno"]

update_system_packages(os_family, dry_run, env) ==
    IF os_family \in {"macos", "debian", "rhel"}
    THEN LET c == PackageCommands(os_family)
             u == run_logged(c.refresh, dry_run, env.refresh)
             g == run_logged(IF dry_run THEN c.dry ELSE c.upgrade, dry_run, env.upgrade)
         IN [ok |-> u.ok /\ g.ok, launched |-> u.launched \o g.launched,
             msgs |-> <<Msg("branch", c.tool)>> \o u.msgs \o g.msgs]
    ELSE [ok |-> FALSE, launched |-> <<>>,
          msgs |-> <<Msg("error", "Unsupported OS family for system package updates")>>]

----------------------------------------------------------------------------
(* main.py: update_all *)

\* Step 1: the core update.  Each step gives failed (the flag after it),
\* launched and msgs
CoreStep(dry_run, env) ==
    IF ~env.git
    THEN [failed |-> FALSE, launched |-> <<>>,
          msgs |-> <<Msg("warning",
                         "Franklin root is not a git repository, skipping core update")>>]
    ELSE LET r == run_logged("git -C <FRANKLIN_ROOT> pull", dry_run, env.pull)
         IN [failed |-> ~r.ok, launched |-> r.launched,
             msgs |-> r.msgs \o (IF r.ok THEN <<Msg("success", "Franklin core updated")>>
                                 ELSE <<>>)]

\* a plugin step that sets the flag from its own outcome alone
PluginStepOwnOutcome(failed, dry_run, env) ==
    LET r == run_logged("sheldon lock --update", dry_run, env.sheldon)
    IN [failed |-> ~r.ok, launched |-> r.launched,
        msgs |-> r.msgs \o (IF r.ok THEN <<Msg("success", "Sheldon plugins updated")>>
                            ELSE <<Msg("error",
                                "Failed to update Sheldon plugins (Sheldon is required)")>>)]

\* Step 2: the plugins
PluginStep(failed, dry_run, env) ==
    LET r == run_logged("sheldon lock --update", dry_run, env.sheldon)
    IN [failed |-> IF r.ok THEN failed ELSE TRUE, launched |-> r.launched,
        msgs |-> r.msgs \o (IF r.ok THEN <<Msg("success", "Sheldon plugins updated")>>
                            ELSE <<Msg("error",
                                "Failed to update Sheldon plugins (Sheldon is required)")>>)]

\* Step 2b: the core tools
ToolStep(failed, env) ==
    IF has_bat(env)
    THEN [failed |-> failed, launched |-> <<>>, msgs |-> <<Msg("success", "bat present")>>]
    ELSE [failed |-> TRUE, launched |-> <<>>,
          msgs |-> <<Msg("error", "bat/batcat not found (bat is required)")>>]

\* Step 3 after the confirmation: the system packages
SystemStep(failed, dry_run, env) ==
    LET os_family == detect_os_family(env)
    IN IF os_family = "unknown"
       THEN [failed |-> TRUE, launched |-> <<>>,
             msgs |-> <<Msg("error", "Could not detect supported OS for system updates")>>]
       ELSE LET r == update_system_packages(os_family, dry_run, env)
            IN [failed |-> IF r.ok THEN failed ELSE TRUE, launched |-> r.launched,
                msgs |-> r.msgs]

\* the exit code of "raise typer.Exit()" after the user declined
CancelExit(failed) == 0

\* update_all(yes, system, dry_run).  env: git (FRANKLIN_ROOT/.git exists),
\* pull, sheldon, refresh, upgrade (outcomes of the commands), bat, batcat,
\* tty (sys.stderr.isatty()), answer (what Prompt.ask returns), system, debian,
\* redhat
update_all(yes, system, dry_run, env) ==
    LET s1 == CoreStep(dry_run, env)
        s2 == PluginStep(s1.failed, dry_run, env)
        s3 == ToolStep(s2.failed, env)
        prompted == system /\ ~yes /\ env.tty
        cancelled == prompted /\ env.answer # "y"
        s4 == SystemStep(s3.failed, dry_run, env)
        before == [steps |-> <<"core", "plugins", "tools">>,
                   flags |-> <<s1.failed, s2.failed, s3.failed>>,
                   launched |-> s1.launched \o s2.launched \o s3.launched,
                   msgs |-> <<Msg("header", "Franklin Update")>>
                               \o s1.msgs \o s2.msgs \o s3.msgs]
    IN IF ~system
       THEN [exit |-> IF s3.failed THEN 1 ELSE 0, failed |-> s3.failed,
             steps |-> before.steps, flags |-> before.flags,
             launched |-> before.launched, prompted |-> FALSE, cancelled |-> FALSE,
             msgs |-> before.msgs \o (IF s3.failed THEN <<>>
                                      ELSE <<Msg("final", "Update complete!")>>)]
       ELSE IF cancelled
       THEN [exit |-> CancelExit(s3.failed), failed |-> s3.failed,
             steps |-> before.steps, flags |-> before.flags,
             launched |-> before.launched, prompted |-> TRUE, cancelled |-> TRUE,
             msgs |-> before.msgs \o <<Msg("info", "Update cancelled")>>]
       ELSE [exit |-> IF s4.failed THEN 1 ELSE 0, failed |-> s4.failed,
             steps |-> before.steps \o <<"system">>,
             flags |-> before.flags \o <<s4.failed>>,
             launched |-> before.launched \o s4.launched,
             prompted |-> prompted, cancelled |-> FALSE,
             msgs |-> before.msgs \o s4.msgs
                         \o (IF s4.failed THEN <<>>
                             ELSE <<Msg("final", "Update complete!")>>)]

----------------------------------------------------------------------------
(* main.py: update *)

\* an update that asks for the confirmation before it looks for the checkout
update_confirm_first(yes, dry_run, env) ==
    LET head == <<Msg("header", "Updating Franklin Core")>>
        prompted == ~yes /\ env.tty
        r == run_logged("git -C <FRANKLIN_ROOT> pull", FALSE, env.pull)
    IN IF prompted /\ env.answer # "y"
       THEN [exit |-> 0, prompted |-> TRUE, launched |-> <<>>,
             msgs |-> head \o <<Msg("info", "Update cancelled")>>]
       ELSE IF ~env.git
       THEN [exit |-> 1, prompted |-> prompted, launched |-> <<>>,
             msgs |-> head \o <<Msg("error", "Franklin root is not a git repository")>>]
       ELSE IF dry_run
       THEN [exit |-> 0, prompted |-> prompted, launched |-> <<>>,
             msgs |-> head \o <<Msg("branch", "DRY RUN: git -C <franklin_root> pull"),
                                Msg("success", "Dry run complete (no changes made).")>>]
       ELSE [exit |-> IF r.ok THEN 0 ELSE 1, prompted |-> prompted,
             launched |-> r.launched,
             msgs |-> head \o <<Msg("branch", "Pulling latest changes...")>> \o r.msgs]

\* update(yes, dry_run).  env: git, pull, tty, answer as for update_all
update(yes, dry_run, env) ==
    LET head == <<Msg("header", "Updating Franklin Core")>>
        prompted == ~yes /\ env.tty
        r == run_logged("git -C <FRANKLIN_ROOT> pull", FALSE, env.pull)
    IN IF ~env.git
       THEN [exit |-> 1, prompted |-> FALSE, launched |-> <<>>,
             msgs |-> head \o <<Msg("error", "Franklin root is not a git repository")>>]
       ELSE IF dry_run
       THEN [exit |-> 0, prompted |-> FALSE, launched |-> <<>>,
             msgs |-> head \o <<Msg("branch", "DRY RUN: git -C <franklin_root> pull"),
                                Msg("success", "Dry run complete (no changes made).")>>]
       ELSE IF prompted /\ env.answer # "y"
       THEN [exit |-> 0, prompted |-> TRUE, launched |-> <<>>,
             msgs |-> head \o <<Msg("info", "Update cancelled")>>]
       ELSE [exit |-> IF r.ok THEN 0 ELSE 1, prompted |-> prompted,
             launched |-> r.launched,
             msgs |-> head \o <<Msg("branch", "Pulling latest changes...")>> \o r.msgs]

----------------------------------------------------------------------------
(* The inputs of the commands *)

\* the color tokens tried (single-line strings, as a shell word or a prompt
\* answer is): the palette names, and strings that are near one or near a hex
\* color
ColorTokens ==
    {PaletteNames[i] : i \in 1..Len(PaletteNames)}
        \cup {"cello", "BadName", "notacolor", "custom",
              "#abcdef", "#ABC123", "#zzzzzz", "#12 456",
              "#abcde", "#abcdef0", "abcdef1", " #abcdef"}

ColorOptions ==
    {NoColorOption, ColorOption("")} \cup {ColorOption(t) : t \in ColorTokens}

\* what Prompt.ask can return: a token, or the empty string for a blank answer
PromptAnswers == ColorTokens \cup {""}

\* the config files a run can start from
InitialFiles ==
    { NoFile(FALSE), NoFile(TRUE),
      FileWith("", TRUE),
      FileWith("MOTD_COLOR_NAME=\"Sage\"\nMOTD_COLOR=\"#8fb14b\"\n", TRUE),
      FileWith("MOTD_COLOR_NAME=\"Sage\"\nMOTD_COLOR=\"#8fb14b\"\n", FALSE),
      FileWith("MONITORED_SERVICES=\"a, b ,c\"\n", TRUE),
      FileWith("MOTD_COLOR_NAME=\"Flamingo\"\nMOTD_COLOR=\"#e75351\"\n"
                 \o "MONITORED_SERVICES=\"nginx,docker\"\n", TRUE),
      FileWith("MOTD_COLOR_NAME=\"Mauve\"\nMOTD_COLOR_NAME=\"Sage\"\n", TRUE),
      FileWith("# colors\nFOO=bar\nMOTD_COLOR_NAME = \"Sage\"\n", TRUE),
      FileWith("MOTD_COLOR_NAME=Terracotta\n", TRUE),
      FileWith("XMOTD_COLOR_NAME=\"Sage\"\nMOTD_COLOR_NAME=  \"Blue Calx\"  \n", TRUE),
      FileWith("MOTD_COLOR_NAME=\"custom\"\nMOTD_COLOR=\"#123456\"\n", TRUE) }

\* the platform as the probes of render_motd see it: each probe's call
\* returns ("ok", "ok2") or raises the exception named
Outcome(how, value) == IF how = "ok" THEN Returned(value) ELSE Raised(how)

HostnameOutcomes == {"ok", "OSError"}
IpOutcomes == {"ok", "OSError", "TimeoutError"}
\* the VERSION file: there and readable, not there, or there and not readable
\* (read_text raises PermissionError)
VersionFiles == {"present", "absent", "unreadable"}
OsOutcomes(system) ==
    CASE system = "Darwin" ->
            {"ok", "FileNotFoundError", "CalledProcessError", "TimeoutExpired"}
      [] system = "Linux" ->
            {"ok", "ok2", "FileNotFoundError", "PermissionError"}
      [] OTHER -> {"ok"}
DiskOutcomes == {"ok", "OSError"}
MemOutcomes == {"ok", "PsutilError"}
DockerOutcomes == {"ok", "FileNotFoundError", "CalledProcessError", "TimeoutExpired"}

\* what the platform's command or file gives the OS probe
OsOutcome(system, how) ==
    CASE how = "ok" /\ system = "Darwin" -> Returned("14.5\n")
      [] how = "ok" /\ system = "Linux" ->
            Returned("NAME=\"Ubuntu\"\nVERSION_ID=\"22.04\"\n")
      [] how = "ok2" -> Returned("ID=arch\nNAME='Arch Linux'\n")
      [] how = "ok" -> Returned("")
      [] OTHER -> Raised(how)

Systems == {"Darwin", "Linux", "Windows"}
ToolStates == {"ok", "missing", "fails", "timeout"}

MotdEnv(system, hostname, ip, version, os, disk, mem, docker, tool, active, width) ==
    [system |-> system,
     hostname |-> Outcome(hostname, "campfire"),
     ip |-> Outcome(ip, "192.168.1.20"),
     version |-> [exists |-> version # "absent",
                  read |-> IF version = "unreadable" THEN Raised("PermissionError")
                           ELSE Returned("2.1.0\n")],
     os |-> OsOutcome(system, os),
     disk |-> Outcome(disk, [used |-> 120, total |-> 500]),
     mem |-> Outcome(mem, [used |-> 6, total |-> 16]),
     docker |-> Outcome(docker, "web\n db \n"),
     services |-> [system |-> system, tool |-> tool, active |-> active],
     width |-> width]

\* a platform on which every probe works, and one on which every probe fails
HealthyEnv(system) ==
    MotdEnv(system, "ok", "ok", "present", "ok", "ok", "ok", "ok", "ok",
            {"nginx", "b"}, 80)

FailingEnv(system) ==
    MotdEnv(system, "OSError", "TimeoutError", "absent",
            IF system = "Windows" THEN "ok" ELSE "FileNotFoundError",
            "OSError", "PsutilError", "TimeoutExpired", "missing", {}, 200)

\* the outcomes of a command run through subprocess with check=True
RunOutcomes == {"ok", "FileNotFoundError", "CalledProcessError"}

\* what "<tool> --version" can do: print a version, print one word only, or
\* raise
VersionOutcomes == {"ok", "oneword", "FileNotFoundError", "CalledProcessError"}

VersionOutcome(tool, how) ==
    CASE how = "ok" -> Returned(tool \o " 1.2.3 (x86_64)\n")
      [] how = "oneword" -> Returned(tool \o "\n")
      [] OTHER -> Raised(how)

----------------------------------------------------------------------------
(* The commands as actions.  Spec: the config file and the commands that    *)
(* write and read it.                                                      *)

NothingSaved == [ok |-> FALSE, color_name |-> "", hex_color |-> ""]

Init ==
    /\ fs \in InitialFiles
    /\ pre = fs
    /\ saved = NothingSaved
    /\ last = [cmd |-> "none"]

\* what a run of config leaves behind
ConfigDone(color, r) ==
    /\ fs' = r.fs
    /\ pre' = fs
    /\ saved' = IF r.exit = 0 THEN r.stored ELSE saved
    /\ last' = [cmd |-> "config", color |-> color, path |-> r.path,
                token |-> r.token, exit |-> r.exit, msgs |-> r.msgs]

\* franklin config --color <color>, the prompt never being reached
ConfigFlag ==
    \E t \in ColorTokens :
        ConfigDone(ColorOption(t), config(fs, ColorOption(t), ""))

\* franklin config, or franklin config --color "": the user answers the prompt
ConfigPrompt ==
    \E color \in {NoColorOption, ColorOption("")}, color_choice \in PromptAnswers :
        ConfigDone(color, config(fs, color, color_choice))

\* franklin motd, on a platform that works or fails as a whole
Motd ==
    \E system \in Systems, healthy \in BOOLEAN :
        LET env == IF healthy THEN HealthyEnv(system) ELSE FailingEnv(system)
        IN /\ last' = [cmd |-> "motd", env |-> env, res |-> render_motd(fs, env)]
           /\ pre' = fs
           /\ UNCHANGED <<fs, saved>>

Next == ConfigFlag \/ ConfigPrompt \/ Motd

Spec == Init /\ [][Next]_vars

----------------------------------------------------------------------------
(* SpecMotd: one run of render_motd under every combination of working and   *)
(* failing probes                                                          *)

MotdFiles ==
    { NoFile(FALSE), NoFile(TRUE),
      FileWith("MOTD_COLOR_NAME=\"Flamingo\"\nMOTD_COLOR=\"#e75351\"\n"
                 \o "MONITORED_SERVICES=\"nginx,docker\"\n", TRUE) }

InitMotd ==
    /\ fs \in MotdFiles
    /\ pre = fs
    /\ saved = NothingSaved
    /\ last = [cmd |-> "none"]

MotdAny ==
    /\ last.cmd = "none"
    /\ \E system \in Systems :
      \E hostname \in HostnameOutcomes, ip \in IpOutcomes, version \in VersionFiles,
         os \in OsOutcomes(system), disk \in DiskOutcomes, mem \in MemOutcomes,
         docker \in DockerOutcomes, tool \in ToolStates :
        LET env == MotdEnv(system, hostname, ip, version, os, disk, mem, docker,
                           tool, {"nginx", "b"}, 80)
        IN /\ last' = [cmd |-> "motd", env |-> env, res |-> render_motd(fs, env)]
           /\ pre' = fs
           /\ UNCHANGED <<fs, saved>>

NextMotd == MotdAny

SpecMotd == InitMotd /\ [][NextMotd]_vars

----------------------------------------------------------------------------
(* SpecServices: the monitored services of every short MONITORED_SERVICES   *)
(* value, on every platform                                                *)

MaxValueLen == 3

ValueAlphabet == {"a", "b", ",", " "}

\* the strings over ValueAlphabet of at most n characters
RECURSIVE StringsUpTo(_)
StringsUpTo(n) ==
    IF n = 0 THEN {""}
    ELSE StringsUpTo(n - 1)
            \cup {s \o c : s \in StringsUpTo(n - 1), c \in ValueAlphabet}

ServiceValues ==
    StringsUpTo(MaxValueLen)
        \cup {"a, b ,c", "nginx,docker,sshd,nginx", "a,,b, ,A b,", "\"a\",b"}

\* the shapes of a file around the value: quoted and alone, unquoted after
\* other keys, and followed by a second MONITORED_SERVICES line
ServiceFileTexts ==
    UNION { { "MONITORED_SERVICES=\"" \o v \o "\"\n",
              "MOTD_COLOR_NAME=\"Sage\"\nMONITORED_SERVICES_OLD=\"zz\"\n"
                 \o "MONITORED_SERVICES= " \o v \o "\nMOTD_COLOR=\"#8fb14b\"",
              "MONITORED_SERVICES=\"" \o v \o "\" \nMONITORED_SERVICES=\"b,a\"\n" }
            : v \in ServiceValues }
        \cup {"", "MOTD_COLOR_NAME=\"Sage\"\n", " MONITORED_SERVICES=\"a\"\n",
              "monitored_services=\"a\"\n"}

ServiceFiles ==
    { NoFile(FALSE), NoFile(TRUE), FileWith("MONITORED_SERVICES=\"a,b\"\n", FALSE) }
        \cup { FileWith(t, TRUE) : t \in ServiceFileTexts }

ActiveSets == { {}, {"a"}, {"b", "sshd"}, {"A", "aa", "ab", "nginx", "sshd", "a b"} }

InitServices ==
    /\ fs \in ServiceFiles
    /\ pre = fs
    /\ saved = NothingSaved
    /\ last = [cmd |-> "none"]

\* get_system_services() on one platform
Services ==
    /\ last.cmd = "none"
    /\ \E system \in Systems, tool \in ToolStates, active \in ActiveSets :
        LET env == [system |-> system, tool |-> tool, active |-> active]
        IN /\ last' = [cmd |-> "services", env |-> env,
                       monitored |-> get_monitored_services_list(fs),
                       res |-> get_system_services(fs, env)]
           /\ pre' = fs
           /\ UNCHANGED <<fs, saved>>

NextServices == Services

SpecServices == InitServices /\ [][NextServices]_vars

----------------------------------------------------------------------------
(* SpecTools: the commands that run external tools                         *)

InitTools ==
    /\ fs = NoFile(TRUE)
    /\ pre = fs
    /\ saved = NothingSaved
    /\ last = [cmd |-> "none"]

\* franklin doctor [--json]
Doctor ==
    /\ last.cmd = "none"
    /\ \E zsh \in VersionOutcomes, sheldon \in VersionOutcomes,
       starship \in VersionOutcomes,
       bat \in BOOLEAN, batcat \in BOOLEAN, root \in BOOLEAN, json_output \in BOOLEAN :
        LET env == [zsh |-> VersionOutcome("zsh", zsh),
                    sheldon |-> VersionOutcome("sheldon", sheldon),
                    starship |-> VersionOutcome("starship", starship),
                    bat |-> bat, batcat |-> batcat, root |-> root]
        IN /\ last' = [cmd |-> "doctor", env |-> env, json_output |-> json_output,
                       res |-> doctor(env, json_output)]
           /\ UNCHANGED <<fs, pre, saved>>

\* franklin update-all [--yes] [--system] [--dry-run]
UpdateAll ==
    /\ last.cmd = "none"
    /\ \E yes \in BOOLEAN, system \in BOOLEAN, dry_run \in BOOLEAN,
       git \in BOOLEAN, pull \in RunOutcomes, sheldon \in RunOutcomes,
       bat \in BOOLEAN, tty \in BOOLEAN, answer \in {"y", "n"},
       platform \in {"Darwin", "Linux"}, debian \in BOOLEAN, redhat \in BOOLEAN,
       refresh \in {"ok", "CalledProcessError"},
       upgrade \in {"ok", "FileNotFoundError"} :
        LET env == [git |-> git, pull |-> pull, sheldon |-> sheldon,
                    bat |-> bat, batcat |-> FALSE, tty |-> tty, answer |-> answer,
                    system |-> platform, debian |-> debian, redhat |-> redhat,
                    refresh |-> refresh, upgrade |-> upgrade]
        IN /\ last' = [cmd |-> "update-all", env |-> env, yes |-> yes,
                       system |-> system, dry_run |-> dry_run,
                       res |-> update_all(yes, system, dry_run, env)]
           /\ UNCHANGED <<fs, pre, saved>>

\* franklin update [--yes] [--dry-run]
Update ==
    /\ last.cmd = "none"
    /\ \E yes \in BOOLEAN, dry_run \in BOOLEAN, git \in BOOLEAN, pull \in RunOutcomes,
       tty \in BOOLEAN, answer \in {"y", "n"} :
        LET env == [git |-> git, pull |-> pull, tty |-> tty, answer |-> answer]
        IN /\ last' = [cmd |-> "update", env |-> env, yes |-> yes, dry_run |-> dry_run,
                       res |-> update(yes, dry_run, env)]
           /\ UNCHANGED <<fs, pre, saved>>

\* _detect_os_family() on one platform
DetectOsFamily ==
    /\ last.cmd = "none"
    /\ \E platform \in Systems, debian \in BOOLEAN, redhat \in BOOLEAN :
        LET env == [system |-> platform, debian |-> debian, redhat |-> redhat]
        IN /\ last' = [cmd |-> "detect", env |-> env, res |-> detect_os_family(env)]
           /\ UNCHANGED <<fs, pre, saved>>

NextTools == Doctor \/ UpdateAll \/ Update \/ DetectOsFamily

SpecTools == InitTools /\ [][NextTools]_vars

----------------------------------------------------------------------------
(* SpecColor: the consoles of one run and their color setting.  main.py:    *)
(* _resolve_no_color, the module's console, main_callback; ui.py:          *)
(* CampfireUI; motd.py: the console of render_motd                         *)

\* an environment variable: unset, or set to a string
Unset == [present |-> FALSE, value |-> ""]
SetTo(v) == [present |-> TRUE, value |-> v]

\* _resolve_no_color(cli_no_color): NO_COLOR counts when it is set,
\* FRANKLIN_NO_COLOR when its value is a non-empty string
resolve_no_color(cli_no_color, environ) ==
    cli_no_color
        \/ environ.NO_COLOR.present
        \/ (environ.FRANKLIN_NO_COLOR.present /\ environ.FRANKLIN_NO_COLOR.value # "")

\* CampfireUI.__init__(no_color=None): either variable counts when it is set
CampfireUI_no_color(environ) ==
    environ.NO_COLOR.present \/ environ.FRANKLIN_NO_COLOR.present

\* the value of the --no-color option: the flag, or FRANKLIN_NO_COLOR read as a
\* boolean by the option's envvar ("1" is true, "0" and the empty string are not)
NoColorOptionValue(flag, environ) ==
    flag \/ (environ.FRANKLIN_NO_COLOR.present /\ environ.FRANKLIN_NO_COLOR.value = "1")

\* Console() without a no_color argument: rich decides from NO_COLOR alone;
\* blank_counts says whether the installed rich counts a NO_COLOR set to ""
RichDefaultNoColor(environ, blank_counts) ==
    environ.NO_COLOR.present /\ (environ.NO_COLOR.value # "" \/ blank_counts)

\* the no_color setting of the three consoles when a command body runs: the
\* ui helper's (ui.set_color in main_callback), the CLI module's (rebuilt in
\* main_callback) and the one render_motd builds
Consoles(flag, environ, blank_counts) ==
    LET effective_no_color == resolve_no_color(NoColorOptionValue(flag, environ), environ)
    IN [ui |-> effective_no_color,
        cli |-> effective_no_color,
        motd |-> RichDefaultNoColor(environ, blank_counts)]

\* the settings at import time, before main_callback has run
ImportConsoles(environ) ==
    [ui |-> CampfireUI_no_color(environ),
     cli |-> resolve_no_color(FALSE, environ)]

\* the consoles a command writes through
WritesThrough(command) ==
    CASE command = "doctor" -> {"ui"}
      [] command = "update" -> {"ui"}
      [] command = "update-all" -> {"ui"}
      [] command = "config" -> {"ui", "cli"}
      [] command = "motd" -> {"motd"}

Commands == {"doctor", "update", "update-all", "config", "motd"}

EnvValues == {Unset, SetTo(""), SetTo("1"), SetTo("0")}

InitColor ==
    /\ fs = NoFile(TRUE)
    /\ pre = fs
    /\ saved = NothingSaved
    /\ last = [cmd |-> "none"]

\* franklin [--no-color] <command>, up to the point where the command writes
RunCommand ==
    /\ last.cmd = "none"
    /\ \E flag \in BOOLEAN, no_color \in EnvValues, franklin_no_color \in EnvValues,
          blank_counts \in BOOLEAN, command \in Commands :
        LET environ == [NO_COLOR |-> no_color, FRANKLIN_NO_COLOR |-> franklin_no_color]
        IN /\ last' = [cmd |-> "run", command |-> command, flag |-> flag,
                       environ |-> environ,
                       imported |-> ImportConsoles(environ),
                       consoles |-> Consoles(flag, environ, blank_counts),
                       writes |-> WritesThrough(command)]
           /\ UNCHANGED <<fs, pre, saved>>

NextColor == RunCommand

SpecColor == InitColor /\ [][NextColor]_vars

----------------------------------------------------------------------------
(* SpecLayout: the banner's layout for every requested width and for short  *)
(* and long header texts                                                   *)

\* how far below 0 and above MOTD_MAX_WIDTH the requested widths go
WidthMargin == 2

RequestedWidths == (0 - WidthMargin)..(MOTD_MAX_WIDTH + WidthMargin)

\* host names of 1 to 64 characters
HostNames == {Repeat("h", n) : n \in {1, 8, 20, 33, 34, 40, 64}}

IpAddresses == {"0.0.0.0", "192.168.100.200"}

VersionTexts == {"unknown\n", "2.1.0\n"}

\* /etc/os-release files: a short label, a long one, and one without a version
OsReleaseTexts ==
    {"NAME=\"Ubuntu\"\nVERSION_ID=\"22.04\"\n",
     "NAME=\"Red Hat Enterprise Linux\"\nVERSION_ID=\"9.3\"\n",
     "ID=arch\nNAME='Arch Linux'\n"}

\* what shutil.disk_usage gives, in GiB, or the exception it raises
DiskUsages == {"ok", "full", "OSError"}
DiskUsage(how) ==
    CASE how = "ok" -> Returned([used |-> 120, total |-> 500])
      [] how = "full" -> Returned([used |-> 1999, total |-> 2000])
      [] OTHER -> Raised(how)

InitLayout ==
    /\ fs = NoFile(TRUE)
    /\ pre = fs
    /\ saved = NothingSaved
    /\ last = [cmd |-> "none"]

\* render_motd(width) on a platform whose probes all work
Layout ==
    /\ last.cmd = "none"
    /\ \E width \in RequestedWidths, hostname \in HostNames, ip \in IpAddresses,
          version \in VersionTexts, os \in OsReleaseTexts, disk \in DiskUsages :
        LET env == [HealthyEnv("Linux") EXCEPT !.width = width,
                                               !.hostname = Returned(hostname),
                                               !.ip = Returned(ip),
                                               !.version.read = Returned(version),
                                               !.os = Returned(os),
                                               !.disk = DiskUsage(disk)]
        IN /\ last' = [cmd |-> "layout", env |-> env, res |-> render_motd(fs, env)]
           /\ UNCHANGED <<fs, pre, saved>>

\* the percentages tried are the multiples of 1 / PercentSteps from 0 to 100
PercentSteps == 2

\* create_progress_bar(percent) for a percentage that is not below the one of
\* the call before, as the bar of a filling disk is drawn again and again
Bar ==
    /\ last.cmd \in {"none", "bar"}
    /\ \E num \in 0..(100 * PercentSteps) :
        /\ last.cmd = "bar" => num > last.num
        /\ last' = [cmd |-> "bar", num |-> num, den |-> PercentSteps,
                    bar |-> create_progress_bar(num, PercentSteps, BAR_WIDTH),
                    before |-> IF last.cmd = "bar"
                               THEN [num |-> last.num, bar |-> last.bar]
                               ELSE [num |-> num,
                                     bar |-> create_progress_bar(num, PercentSteps,
                                                                 BAR_WIDTH)]]
        /\ UNCHANGED <<fs, pre, saved>>

\* the longest list of items laid out
MaxItems == 7

\* the labels laid out: all different ("svc1", "svc2", ...), all the same,
\* of exactly 18 characters, or longer than the 18 characters a cell pads to
GridKinds == {"distinct", "same", "exact", "long"}

GridItems(n, kind) ==
    [i \in 1..n |->
        CASE kind = "distinct" -> "svc" \o NatToStr(i)
          [] kind = "same" -> "web"
          [] kind = "exact" -> "seventeen-letters" \o NatToStr(i)
          [] kind = "long" -> "franklin-postgres-replica-" \o NatToStr(i)]

\* format_grid(items, width, color) for an effective width
Grid ==
    /\ last.cmd = "none"
    /\ \E n \in 0..MaxItems, kind \in GridKinds, width \in MOTD_MIN_WIDTH..MOTD_MAX_WIDTH :
        /\ last' = [cmd |-> "grid", items |-> GridItems(n, kind), width |-> width,
                    rows |-> format_grid(GridItems(n, kind), width, MAX_ITEM_WIDTH)]
        /\ UNCHANGED <<fs, pre, saved>>

NextLayout == Layout \/ Bar \/ Grid

SpecLayout == InitLayout /\ [][NextLayout]_vars

----------------------------------------------------------------------------
(* What the claims speak of, stated by position rather than by a scan of   *)
(* the text                                                                *)

SetMin(S) == CHOOSE x \in S : \A y \in S : x <= y
SetMax(S) == CHOOSE x \in S : \A y \in S : x >= y

\* s without the characters of cs at its two ends
Trimmed(s, cs) ==
    LET keep == {i \in 1..Len(s) : CharAt(s, i) \notin cs}
    IN IF keep = {} THEN "" ELSE SubSeq(s, SetMin(keep), SetMax(keep))

\* the positions that bound the fields of s: each separator, and the two ends
FieldCuts(s, sep) ==
    {0, Len(s) + 1} \cup {i \in 1..Len(s) : CharAt(s, i) = sep}

\* the k-th field of s (k = 1 is the first), the fields being the stretches
\* between neighbouring separators
FieldAt(s, sep, k) ==
    LET cuts == FieldCuts(s, sep)
        from == CHOOSE a \in cuts : Cardinality({c \in cuts : c < a}) = k - 1
        to == CHOOSE b \in cuts : Cardinality({c \in cuts : c < b}) = k
    IN SubSeq(s, from + 1, to - 1)

FieldCount(s, sep) == Cardinality(FieldCuts(s, sep)) - 1

\* the value a readable file gives key: what follows "key" on the first line
\* that begins with it, without the blanks and then the quotes around it;
\* none when no line begins with key
KeyValue(f, key) ==
    LET n == FieldCount(f.text, "\n")
        hits == {k \in 1..n : StartsWith(FieldAt(f.text, "\n", k), key)}
    IN IF ~f.exists \/ ~f.readable \/ hits = {}
       THEN [found |-> FALSE, value |-> ""]
       ELSE [found |-> TRUE,
             value |-> Trimmed(Trimmed(SubSeq(FieldAt(f.text, "\n", SetMin(hits)),
                                              Len(key) + 1,
                                              Len(FieldAt(f.text, "\n", SetMin(hits)))),
                                       Whitespace),
                               {"\""})]

IsPaletteName(tok) == \E i \in 1..Len(PaletteNames) : PaletteNames[i] = tok

HexDigits == "0123456789abcdefABCDEF"

\* a strict 7-character #rrggbb string
IsStrictHex(tok) ==
    /\ Len(tok) = 7
    /\ CharAt(tok, 1) = "#"
    /\ \A i \in 2..7 : \E j \in 1..Len(HexDigits) : CharAt(HexDigits, j) = CharAt(tok, i)

\* a 7-character string that begins with '#': what the command takes for a hex
\* color
IsAcceptedHex(tok) == Len(tok) = 7 /\ CharAt(tok, 1) = "#"

HasMsg(msgs, kind, text) ==
    \E i \in 1..Len(msgs) : msgs[i].kind = kind /\ msgs[i].text = text

----------------------------------------------------------------------------
(* The claims *)

\* C1: whatever the config file was before (absent or with any content), a run
\* of config whose color token (the --color value, or the answer to the prompt)
\* is neither a palette name nor a hex color the command accepts exits with a
\* non-zero code and leaves the config directory and file exactly as they were.
C1_RejectedColorLeavesConfig ==
    (last.cmd = "config" /\ ~IsPaletteName(last.token) /\ ~IsAcceptedHex(last.token))
        => (last.exit # 0 /\ fs = pre)

\* a --color token was rejected while a config file with content existed
C1_Witness ==
    /\ last.cmd = "config"
    /\ last.path = "flag"
    /\ last.token = "BadName"
    /\ last.exit = 1
    /\ pre.exists
    /\ pre.text # ""
    /\ fs = pre

\* C2: once config has accepted a well-formed hex color h, the palette that
\* render_motd loads is named "custom" and has base = dark = light = h.
C2_CustomRoundTrip ==
    (last.cmd = "motd" /\ saved.ok /\ IsStrictHex(saved.hex_color)
        /\ saved.color_name = "custom")
        => /\ last.res.color.name = "custom"
           /\ last.res.color.colors =
                [base |-> saved.hex_color, dark |-> saved.hex_color,
                 light |-> saved.hex_color]

\* C3: config accepts a token if and only if it is a palette name or a strict
\* #rrggbb string, and a rejection reports the valid names and the hex-format
\* hint.
C3_AcceptsIffPaletteOrStrictHex ==
    last.cmd = "config"
        => /\ (last.exit = 0) <=> (IsPaletteName(last.token) \/ IsStrictHex(last.token))
           /\ last.exit # 0
                => /\ HasMsg(last.msgs, "info",
                             "Valid colors: Cello, Terracotta, Black Rock, Sage, "
                                \o "Golden Amber, Flamingo, Blue Calx")
                   /\ HasMsg(last.msgs, "info", "Or use hex format: #rrggbb")

C7_SaveReplacesWholeFile ==
    (last.cmd = "config" /\ last.exit = 0)
        => LET name == IF IsPaletteName(last.token) THEN last.token ELSE "custom"
               hex == IF IsPaletteName(last.token)
                      THEN CAMPFIRE_COLORS[last.token].base ELSE last.token
           IN /\ fs.dir /\ fs.exists
              /\ FieldCount(fs.text, "\n") = 3
              /\ FieldAt(fs.text, "\n", 1) = "MOTD_COLOR_NAME=\"" \o name \o "\""
              /\ FieldAt(fs.text, "\n", 2) = "MOTD_COLOR=\"" \o hex \o "\""
              /\ FieldAt(fs.text, "\n", 3) = ""
              /\ get_monitored_services_list(fs) = <<>>
              /\ ~KeyValue(fs, "MONITORED_SERVICES=").found

\* a save over a file that listed monitored services
C7_Witness ==
    /\ last.cmd = "config"
    /\ last.exit = 0
    /\ get_monitored_services_list(pre) = <<"nginx", "docker">>
    /\ get_monitored_services_list(fs) = <<>>


\* C5: with no config file, motd ends with exit code 0 whatever probes fail
\* (the version file among them): every probe runs, a failing probe gives its
\* placeholder ("unknown", "0.0.0.0", "??", the empty list), and the default
\* palette is used.
C5_MotdNeverFails ==
    (last.cmd = "motd" /\ ~fs.exists)
        => LET env == last.env
               res == last.res
           IN /\ res.exit = 0
              /\ res.raised = "none"
              /\ res.probes = ProbeNames
              /\ env.hostname.raised # "none" => res.snapshot[1] = "unknown"
              /\ env.ip.raised # "none" => res.snapshot[2] = "0.0.0.0"
              /\ (~env.version.exists \/ env.version.read.raised # "none")
                    => res.snapshot[3] = "unknown"
              /\ env.os.raised # "none" => res.snapshot[4] \in {"macOS", "Linux"}
              /\ env.disk.raised # "none"
                    => (res.snapshot[5].used = "??" /\ res.snapshot[5].total = "??")
              /\ env.mem.raised # "none"
                    => (res.snapshot[6].used = "??" /\ res.snapshot[6].total = "??")
              /\ env.docker.raised # "none" => res.snapshot[7] = <<>>
              /\ env.services.tool # "ok" => res.snapshot[8] = <<>>
              /\ res.color = [name |-> "Cello", colors |-> CAMPFIRE_COLORS["Cello"]]

\* C6: update-all exits with code 1 if any step failed and with code 0 only if
\* none did, on every path, declining the system-update prompt included.
C6_ExitOneIffAStepFailed ==
    last.cmd = "update-all"
        => /\ last.res.exit \in {0, 1}
           /\ (last.res.exit = 1)
                <=> (\E i \in 1..Len(last.res.flags) : last.res.flags[i])

\* r is m with some entries left out: the entries of r are entries of m, in
\* m's order, each position of m used at most once
IsSubsequence(r, m) ==
    \E pos \in [1..Len(r) -> 1..Len(m)] :
        /\ \A i \in 1..Len(r) : m[pos[i]] = r[i]
        /\ \A i, j \in 1..Len(r) : i < j => pos[i] < pos[j]

\* C8: the running services reported are a subsequence of the monitored list;
\* a service that is not listed is never reported; and with an empty list the
\* result is empty and no command of the platform is run.
C8_RunningIsSubsequenceOfMonitored ==
    last.cmd = "services"
        => /\ IsSubsequence(last.res.running, last.monitored)
           /\ \A i \in 1..Len(last.res.running) :
                 \E j \in 1..Len(last.monitored) :
                    last.monitored[j] = last.res.running[i]
           /\ last.monitored = <<>>
                 => (last.res.running = <<>> /\ last.res.calls = <<>>)

\* on Linux with sshd and b running and a, b monitored, only b is reported
C8_Witness ==
    /\ last.cmd = "services"
    /\ last.env.system = "Linux"
    /\ last.env.tool = "ok"
    /\ "sshd" \in last.env.active
    /\ last.monitored = <<"a", "b">>
    /\ last.res.running = <<"b">>

\* the entries of the comma-separated value v: its fields, trimmed, the blank
\* ones left out, in their order
ExpectedEntries(v) ==
    LET n == FieldCount(v, ",")
        entry(k) == Trimmed(FieldAt(v, ",", k), Whitespace)
        keep == {k \in 1..n : entry(k) # ""}
    IN [j \in 1..Cardinality(keep) |->
          entry(CHOOSE k \in keep : Cardinality({x \in keep : x < k}) = j - 1)]

\* C9: get_monitored_services_list returns, in order, the comma-separated
\* entries of the first MONITORED_SERVICES line, trimmed, the empty ones
\* dropped ("a, b ,c" gives a, b, c); it returns the empty sequence when the
\* file is absent or unreadable or has no such line, and ignores other keys.
C9_MonitoredServicesParsed ==
    last.cmd = "services"
        => LET kv == KeyValue(fs, "MONITORED_SERVICES=")
           IN /\ kv.found => last.monitored = ExpectedEntries(kv.value)
              /\ ~kv.found => last.monitored = <<>>
              /\ fs = FileWith("MONITORED_SERVICES=\"a, b ,c\"\n", TRUE)
                    => last.monitored = <<"a", "b", "c">>

\* the value of the specification's example was read
C9_Witness ==
    /\ last.cmd = "services"
    /\ fs.text = "MONITORED_SERVICES=\"a, b ,c\"\n"
    /\ last.monitored = <<"a", "b", "c">>

\* "<tool> --version" ran and printed the tool's name and a version
ToolWorks(outcome) ==
    /\ outcome.raised = "none"
    /\ \E i \in 2..(Len(Trimmed(outcome.value, Whitespace)) - 1) :
          CharAt(Trimmed(outcome.value, Whitespace), i) \in Whitespace

\* the names of the checks that do not pass, in the order of the checks
ExpectedFailures(env) ==
    (IF ToolWorks(env.zsh) THEN <<>> ELSE <<"zsh">>)
        \o (IF ToolWorks(env.sheldon) THEN <<>> ELSE <<"sheldon">>)
        \o (IF ToolWorks(env.starship) THEN <<>> ELSE <<"starship">>)
        \o (IF env.bat \/ env.batcat THEN <<>> ELSE <<"bat">>)
        \o (IF env.root THEN <<>> ELSE <<"franklin_root">>)

\* C10: doctor exits with code 0 if and only if every check passed (zsh,
\* sheldon, starship, bat, Franklin root) and with 1 otherwise, and a failing
\* check never keeps a later check from running.
C10_DoctorExitCode ==
    last.cmd = "doctor"
        => /\ last.res.exit = IF ExpectedFailures(last.env) = <<>> THEN 0 ELSE 1
           /\ last.res.failures = ExpectedFailures(last.env)
           /\ DOMAIN last.res.checks = {CheckKeys[i] : i \in 1..Len(CheckKeys)}

\* zsh is missing, and the later checks still ran: the missing root is reported
C10_Witness ==
    /\ last.cmd = "doctor"
    /\ last.env.zsh.raised = "FileNotFoundError"
    /\ ToolWorks(last.env.sheldon)
    /\ ~last.env.root
    /\ last.res.failures = <<"zsh", "franklin_root">>
    /\ last.res.checks["Franklin Root"] = "Not found"
    /\ last.res.exit = 1


\* C11: doctor --json always writes the report before it exits, whatever checks
\* pass or fail: one object on standard output with an entry for each of the
\* six checks, the failing ones included, and the UI messages on standard
\* error only.
C11_JsonReportAlwaysEmitted ==
    (last.cmd = "doctor" /\ last.json_output)
        => LET res == last.res
           IN /\ Len(res.stdout) = 1
              /\ DOMAIN res.stdout[1] = {"json"}
              /\ DOMAIN res.stdout[1].json =
                    {"Shell", "Plugin Manager", "Prompt", "Python", "bat",
                     "Franklin Root"}
              /\ \A k \in DOMAIN res.stdout[1].json : res.stdout[1].json[k] # ""
              /\ ~ToolWorks(last.env.zsh) => res.stdout[1].json["Shell"] = "Zsh not found"
              /\ ~last.env.root => res.stdout[1].json["Franklin Root"] = "Not found"
              /\ \A i \in 1..Len(res.stderr) : "json" \notin DOMAIN res.stderr[i]
              /\ \E i \in 1..Len(res.stderr) :
                    res.stderr[i] = Msg("logic", "Checking Environment...")

\* every check failed, and the report was still written
C11_Witness ==
    /\ last.cmd = "doctor"
    /\ last.json_output
    /\ last.res.exit = 1
    /\ last.res.failures = <<"zsh", "sheldon", "starship", "bat", "franklin_root">>
    /\ Len(last.res.stdout) = 1
    /\ last.res.stdout[1].json["Prompt"] = "Starship not found"


\* C12: with --dry-run, update and update-all start no external command,
\* whatever the other flags and the OS family are; each step that would have
\* run a command prints its DRY RUN line and counts as successful.
C12_DryRunLaunchesNothing ==
    (last.cmd \in {"update", "update-all"} /\ last.dry_run)
        => LET res == last.res
               env == last.env
           IN /\ res.launched = <<>>
              /\ last.cmd = "update" /\ env.git
                    => /\ res.exit = 0
                       /\ HasMsg(res.msgs, "branch", "DRY RUN: git -C <franklin_root> pull")
              /\ last.cmd = "update-all"
                    => /\ env.git
                          => /\ HasMsg(res.msgs, "branch",
                                       "DRY RUN: git -C <FRANKLIN_ROOT> pull")
                             /\ HasMsg(res.msgs, "success", "Franklin core updated")
                       /\ ~res.flags[1]
                       /\ HasMsg(res.msgs, "branch", "DRY RUN: sheldon lock --update")
                       /\ ~res.flags[2]
                       /\ res.flags[3] = (~env.bat /\ ~env.batcat)
                       /\ (Len(res.steps) = 4 /\ env.system = "Darwin")
                          => /\ HasMsg(res.msgs, "branch", "DRY RUN: brew update")
                             /\ HasMsg(res.msgs, "branch",
                                       "DRY RUN: brew upgrade --dry-run")
                             /\ res.flags[4] = res.flags[3]
                       /\ (Len(res.steps) = 4 /\ env.system = "Linux" /\ env.debian)
                          => /\ HasMsg(res.msgs, "branch", "DRY RUN: sudo apt-get update")
                             /\ HasMsg(res.msgs, "branch", "DRY RUN: apt-get upgrade -s")
                             /\ res.flags[4] = res.flags[3]
                       /\ (Len(res.steps) = 4 /\ env.system = "Linux" /\ ~env.debian
                             /\ env.redhat)
                          => /\ HasMsg(res.msgs, "branch", "DRY RUN: sudo dnf makecache")
                             /\ HasMsg(res.msgs, "branch",
                                       "DRY RUN: dnf upgrade --assumeno")
                             /\ res.flags[4] = res.flags[3]

\* a dry run of update-all --system on a dnf system where every command would
\* have failed: nothing was started and the run succeeded
C12_Witness ==
    /\ last.cmd = "update-all"
    /\ last.dry_run /\ last.system /\ last.yes
    /\ last.env.git /\ last.env.bat
    /\ last.env.pull = "CalledProcessError"
    /\ last.env.sheldon = "FileNotFoundError"
    /\ last.env.refresh = "CalledProcessError"
    /\ last.env.upgrade = "FileNotFoundError"
    /\ last.env.system = "Linux" /\ ~last.env.debian /\ last.env.redhat
    /\ last.res.steps = <<"core", "plugins", "tools", "system">>
    /\ last.res.launched = <<>>
    /\ last.res.exit = 0


\* the user is asked for the confirmation and does not answer "y"
Declines(yes, env) == ~yes /\ env.tty /\ env.answer # "y"

\* C13: update exits with code 1 whenever the Franklin root has no .git entry,
\* whatever --yes and --dry-run are, without prompting and without running
\* git; in a checkout git pull runs only if the run is not a dry run and the
\* user did not decline, and declining exits 0 without running git.
C13_UpdateNeedsCheckout ==
    last.cmd = "update"
        => LET res == last.res
               env == last.env
           IN /\ ~env.git => (res.exit = 1 /\ ~res.prompted /\ res.launched = <<>>)
              /\ res.launched # <<>>
                    => /\ env.git /\ ~last.dry_run /\ ~Declines(last.yes, env)
                       /\ res.launched = <<"git -C <FRANKLIN_ROOT> pull">>
              /\ (env.git /\ ~last.dry_run /\ Declines(last.yes, env))
                    => (res.exit = 0 /\ res.prompted /\ res.launched = <<>>)

\* no checkout, on a terminal, without --yes: exit code 1 and no prompt
C13_Witness ==
    /\ last.cmd = "update"
    /\ ~last.env.git /\ last.env.tty /\ ~last.yes /\ ~last.dry_run
    /\ last.env.answer = "n"
    /\ last.res.exit = 1
    /\ ~last.res.prompted
    /\ last.res.launched = <<>>


\* C14: whenever color is disabled for a run (--no-color is given, or NO_COLOR
\* or FRANKLIN_NO_COLOR is set in the environment), every console the command
\* writes through has color disabled, and the ui helper's console, the CLI
\* module's console and the console of render_motd all have the same setting.
C14_NoColorReachesEveryConsole ==
    last.cmd = "run"
        => /\ (last.flag \/ last.environ.NO_COLOR.present
                 \/ last.environ.FRANKLIN_NO_COLOR.present)
                => \A c \in last.writes : last.consoles[c]
           /\ last.consoles.ui = last.consoles.cli
           /\ last.consoles.cli = last.consoles.motd


\* the two segments of the header as the inputs give them
LeftSegment(env) == " > " \o env.hostname.value \o " (" \o env.ip.value \o ")"
VersionTag(env) == EMOJI \o " " \o Trimmed(env.version.read.value, Whitespace)

\* C15 as stated: for every effective width in [40, 80] and every hostname, IP
\* and version whose left segment and version tag do not overlap, the header
\* line (left segment, padding, version tag) is exactly effective-width
\* characters long.
C15_HeaderFillsWidth ==
    (last.cmd = "layout"
        /\ Len(LeftSegment(last.env)) + Len(VersionTag(last.env)) <= last.res.width)
        => Len(last.res.lines[2]) = last.res.width

\* C15 as amended: when the left segment and the version tag fit into the
\* effective width with the emoji counted as two columns, the header line is
\* the left segment, spaces, and the version tag, and is effective width - 1
\* characters long (the emoji being one character that fills two columns).
C15_HeaderFillsWidthInColumns ==
    (last.cmd = "layout"
        /\ Len(LeftSegment(last.env)) + Len(VersionTag(last.env)) + 1 <= last.res.width)
        => LET line == last.res.lines[2]
               left == LeftSegment(last.env)
               tag == VersionTag(last.env)
           IN /\ last.res.width \in MOTD_MIN_WIDTH..MOTD_MAX_WIDTH
              /\ Len(line) = last.res.width - 1
              /\ SubSeq(line, 1, Len(left)) = left
              /\ SubSeq(line, Len(line) - Len(tag) + 1, Len(line)) = tag
              /\ \A i \in (Len(left) + 1)..(Len(line) - Len(tag)) : CharAt(line, i) = " "

\* width 40, where a host name of 8 characters leaves room for 11 spaces
C15_Witness ==
    /\ last.cmd = "layout"
    /\ last.res.width = 40
    /\ last.env.width = 0
    /\ last.env.hostname.value = "hhhhhhhh"
    /\ last.env.ip.value = "0.0.0.0"
    /\ last.env.version.read.value = "2.1.0\n"
    /\ last.res.lines[2] = " > hhhhhhhh (0.0.0.0)           @ 2.1.0"


\* C16: every divider line render_motd prints (the top border, the border
\* under the header and the border under the stats line) is exactly
\* effective-width characters, each of them the border glyph, for every
\* effective width in [40, 80].
C16_DividersAreWidthBorderGlyphs ==
    last.cmd = "layout"
        => \A k \in {1, 3, 5} :
              /\ Len(last.res.lines[k]) = last.res.width
              /\ \A i \in 1..Len(last.res.lines[k]) :
                    CharAt(last.res.lines[k], i) = BORDER

\* C17: for every requested width (0, negative and above 80 included; the
\* terminal's width when none is given), the effective width of render_motd is
\* the requested width when it lies in [40, 80], 40 when it is smaller and 80
\* when it is larger, and the layout is made for that width.
C17_EffectiveWidthIsClamped ==
    last.cmd = "layout"
        => /\ last.res.width = IF last.env.width < 40 THEN 40
                               ELSE IF last.env.width > 80 THEN 80
                               ELSE last.env.width
           /\ last.res.lines[1] = Repeat(BORDER, last.res.width)
           /\ last.res.lines[3] = Repeat(BORDER, last.res.width)

\* a negative width was asked for, and 40 was used
C17_Witness ==
    /\ last.cmd = "layout"
    /\ last.env.width = -1
    /\ last.res.width = 40
    /\ Len(last.res.lines[1]) = 40


\* the number of solid block glyphs in a bar
SolidCount(bar) == Cardinality({i \in 1..Len(bar) : CharAt(bar, i) = BLOCK_FULL})

\* C18: for every percentage p in 0..100 and bar width 10, create_progress_bar
\* gives a boundary glyph, floor(p / 100 * 10) solid blocks, the light blocks
\* that fill up to 10, and a boundary glyph, 12 characters in all; p = 0, 50,
\* 100 give 0, 5 and 10 solid blocks, and the solid part never shrinks as p
\* grows.
C18_ProgressBarShape ==
    last.cmd = "bar"
        => LET bar == last.bar
               \* filled = floor(p / 10), p being num / den
               filled == CHOOSE k \in 0..10 :
                            /\ k * 10 * last.den <= last.num
                            /\ (k = 10 \/ last.num < (k + 1) * 10 * last.den)
           IN /\ Len(bar) = 12
              /\ CharAt(bar, 1) = "|" /\ CharAt(bar, 12) = "|"
              /\ \A i \in 1..10 :
                    CharAt(bar, i + 1) = IF i <= filled THEN BLOCK_FULL ELSE BLOCK_LIGHT
              /\ last.num = 0 => bar = "|..........|"
              /\ last.num = 50 * last.den => bar = "|#####.....|"
              /\ last.num = 100 * last.den => bar = "|##########|"
              /\ last.before.num <= last.num
              /\ SolidCount(last.before.bar) <= SolidCount(bar)

\* 99.5 percent, drawn after 50 percent: nine solid blocks, not ten
C18_Witness ==
    /\ last.cmd = "bar"
    /\ 2 * last.num = 199 * last.den
    /\ last.bar = "|#########.|"
    /\ last.before.bar = "|#####.....|"


\* C19: for every list of N items and every effective width w in [40, 80],
\* format_grid with cells of 22 gives ceil(N / k) rows, k being
\* max(1, floor((w - 1) / 22)) (3 at w = 80, 1 at w = 40); every row but the
\* last holds k items, the last between 1 and k; the rows read in order are the
\* input; and an empty list gives no rows.
C19_GridPacking ==
    last.cmd = "grid"
        => LET N == Len(last.items)
               w == last.width
               rows == last.rows
               k == IF (w - 1) \div 22 >= 1 THEN (w - 1) \div 22 ELSE 1
           IN /\ Len(rows) = (N + k - 1) \div k
              /\ w = 80 => Len(rows) = (N + 2) \div 3
              /\ w = 40 => Len(rows) = N
              /\ \A r \in 1..(Len(rows) - 1) : Len(rows[r].items) = k
              /\ Len(rows) > 0 => Len(rows[Len(rows)].items) \in 1..k
              /\ \A r \in 1..Len(rows) : \A j \in 1..Len(rows[r].items) :
                    rows[r].items[j] = last.items[(r - 1) * k + j]
              /\ N = 0 => rows = <<>>

\* seven items at width 80: rows of 3, 3 and 1
C19_Witness ==
    /\ last.cmd = "grid"
    /\ last.width = 80
    /\ Len(last.rows) = 3
    /\ last.rows[1].items = <<"svc1", "svc2", "svc3">>
    /\ last.rows[2].items = <<"svc4", "svc5", "svc6">>
    /\ last.rows[3].items = <<"svc7">>


\* C20: _detect_os_family always returns one of "macos", "debian", "fedora",
\* "unknown", whatever the platform is and whichever of /etc/debian_version and
\* /etc/redhat-release exist, and returns "macos" whenever the platform is
\* Darwin.
C20_OsFamilyValues ==
    last.cmd = "detect"
        => /\ last.res \in {"macos", "debian", "fedora", "unknown"}
           /\ last.env.system = "Darwin" => last.res = "macos"


\* how many entries of the sequence seq are in the set S
CountIn(seq, S) == Cardinality({i \in 1..Len(seq) : seq[i] \in S})

\* C21: update-all runs its steps in the order core update, plugin update,
\* bat validation, then system packages when --system is given; the plugin
\* update and the bat validation are each attempted exactly once whatever came
\* before; a missing checkout skips the pull with a warning and is no failure;
\* and the failure flag, once set, is never cleared by a later step.
C21_StepsInOrderFlagKept ==
    last.cmd = "update-all"
        => LET res == last.res
               env == last.env
               git == "git -C <FRANKLIN_ROOT> pull"
               sheldon == "sheldon lock --update"
           IN /\ Len(res.steps) \in {3, 4}
              /\ SubSeq(res.steps, 1, 3) = <<"core", "plugins", "tools">>
              /\ Len(res.steps) = 4 => (res.steps[4] = "system" /\ last.system)
              /\ (last.system /\ ~res.cancelled) => Len(res.steps) = 4
              /\ Len(res.flags) = Len(res.steps)
              \* the commands started, in order: git (in a checkout), sheldon,
              \* then the package manager's
              /\ ~last.dry_run
                    => /\ CountIn(res.launched, {sheldon}) = 1
                       /\ CountIn(res.launched, {git}) = IF env.git THEN 1 ELSE 0
                       /\ res.launched[IF env.git THEN 2 ELSE 1] = sheldon
                       /\ env.git => res.launched[1] = git
                       /\ Len(res.steps) = 3 => Len(res.launched) = IF env.git THEN 2 ELSE 1
              /\ CountIn(res.msgs,
                         {Msg("success", "Sheldon plugins updated"),
                          Msg("error",
                              "Failed to update Sheldon plugins (Sheldon is required)")}) = 1
              /\ CountIn(res.msgs,
                         {Msg("success", "bat present"),
                          Msg("error", "bat/batcat not found (bat is required)")}) = 1
              /\ ~env.git
                    => /\ ~res.flags[1]
                       /\ HasMsg(res.msgs, "warning",
                             "Franklin root is not a git repository, skipping core update")
              /\ \A i, j \in 1..Len(res.flags) : (i < j /\ res.flags[i]) => res.flags[j]
              /\ res.failed = res.flags[Len(res.flags)]

\* the pull failed and every later step succeeded: all four steps ran, in
\* order, and the flag set by the first was kept to the end
C21_Witness ==
    /\ last.cmd = "update-all"
    /\ last.system /\ last.yes /\ ~last.dry_run
    /\ last.env.git /\ last.env.pull = "CalledProcessError"
    /\ last.env.sheldon = "ok" /\ last.env.bat
    /\ last.env.system = "Darwin"
    /\ last.env.refresh = "ok" /\ last.env.upgrade = "ok"
    /\ last.res.launched = <<"git -C <FRANKLIN_ROOT> pull", "sheldon lock --update",
                             "brew update", "brew upgrade">>
    /\ last.res.flags = <<TRUE, TRUE, TRUE, TRUE>>
    /\ last.res.exit = 1


\* C22: every cell format_grid renders is exactly 22 characters whatever the
\* length of the label (a shorter label is padded, a longer one cut), so every
\* row is the number of its items times 22 characters, at most itemsPerLine *
\* 22, and never longer than the effective width.
C22_CellsAreMaxItemWidth ==
    last.cmd = "grid"
        => LET k == IF (last.width - 1) \div 22 >= 1 THEN (last.width - 1) \div 22 ELSE 1
           IN \A r \in 1..Len(last.rows) :
                 /\ Len(last.rows[r].text) = 22 * Len(last.rows[r].items)
                 /\ Len(last.rows[r].text) <= k * 22
                 /\ Len(last.rows[r].text) <= last.width


\* the left content of the stats line as the probes' values give it: the disk
\* bar, the percentage, used/total, the gap of 15 spaces, RAM used/total
StatsLeft(disk, mem) ==
    "  " \o disk.bar \o " " \o disk.pct \o "% " \o disk.used \o "/" \o disk.total
        \o Repeat(" ", 15) \o "RAM " \o mem.used \o "/" \o mem.total

\* C23: the padding before the OS label of the stats line is the effective
\* width minus the length of the left content minus the length of the OS
\* label.  When that is not negative, the line is exactly effective-width
\* characters and the OS label ends at the right edge; when it is negative,
\* there is no padding, nothing is cut, and the line is longer than the
\* effective width.
C23_StatsLinePadding ==
    last.cmd = "layout"
        => LET line == last.res.lines[4]
               left == StatsLeft(last.res.snapshot[5], last.res.snapshot[6])
               os == last.res.snapshot[4]
               d == last.res.width - Len(left) - Len(os)
           IN /\ SubSeq(line, 1, Len(left)) = left
              /\ SubSeq(line, Len(line) - Len(os) + 1, Len(line)) = os
              /\ d >= 0
                    => /\ Len(line) = last.res.width
                       /\ \A i \in (Len(left) + 1)..(Len(left) + d) : CharAt(line, i) = " "
              /\ d < 0
                    => /\ line = left \o os
                       /\ Len(line) > last.res.width

\* width 80 with the label "Ubuntu 22.04": 15 spaces of padding, and the
\* label ends in column 80
C23_Witness ==
    /\ last.cmd = "layout"
    /\ last.res.width = 80
    /\ last.res.snapshot[4] = "Ubuntu 22.04"
    /\ last.res.lines[4] = "  |##........| 24% 120G/500G" \o Repeat(" ", 15)
                              \o "RAM 6G/16G" \o Repeat(" ", 15) \o "Ubuntu 22.04"
    /\ Len(last.res.lines[4]) = 80

====
